---- MODULE Spec2Model ----
(***************************************************************************)
(* Model of so_pysm_models/alms.py: the PrecomputedAlms component.         *)
(*                                                                         *)
(* Arrays are modelled as numpy stores them: a shape tuple plus a flat,    *)
(* row-major (C order) data buffer.  Buffers live in a heap keyed by a     *)
(* buffer name, so that views (out[0]) and copies (np.tile, enmap.enmap,   *)
(* the product out * factor) are distinguishable.  None is <<>>; a value   *)
(* that is not None is a non-empty tuple (<<n>> for an int n).             *)
(*                                                                         *)
(* The external libraries are modelled by what alms.py relies on:          *)
(*   hp.read_alm   one coefficient set (1-D) for hdu=1, three (2-D) for    *)
(*                 hdu=(1,2,3); raises on an unreadable file               *)
(*   hp.alm2map    a 1-D map for a 1-D alm, else one map per alm row       *)
(*   enmap.empty   a buffer of exactly the requested shape                 *)
(*   curvedsky.alm2map  fills the given buffer in place                    *)
(*   np.tile, broadcasting, indexing: numpy's documented semantics         *)
(*   pysm.convert_units  an elementwise table on the frequencies; floats   *)
(*                 are represented by integers                             *)
(***************************************************************************)
EXTENDS Integers, Sequences, FiniteSets, TLC

VARIABLES pixell, obj, heap, ret, touched

vars == <<pixell, obj, heap, ret, touched>>

(* ------------------------------ bounds --------------------------------- *)

\* longest frequency sequence passed to signal()
MaxFreqs == 2

\* ------------------------------ inputs ----------------------------------

None == <<>>

Files == {"alms.fits", "missing.fits"}

\* HEALPix resolutions passed as target_nside
Nsides == {1}

\* target_shape values: None, or (ny, nx) = (2, 3) behind a leading dimension
Shapes == {None, <<5, 2, 3>>}

Wcss == {None, <<"car">>}

Units == {"uK_RJ", "K_CMB"}

\* output_units: the unit PySM expects of a component (the default), and a
\* tag convert_units does not recognise
OutUnits == {"uK_RJ", "bogus"}

Freqs == {100, 148}

PixelIndexSets == {None, <<1, 3>>}

RECURSIVE SeqsOfLen(_, _)
SeqsOfLen(S, n) ==
  IF n = 0 THEN {<<>>}
  ELSE {Append(s, x) : s \in SeqsOfLen(S, n - 1), x \in S}

\* nu is a scalar (kind "scalar") or a non-empty sequence of frequencies
NuInputs ==
  {[kind |-> "scalar", val |-> <<f>>] : f \in Freqs}
  \cup UNION {{[kind |-> "seq", val |-> s] : s \in SeqsOfLen(Freqs, n)} : n \in 1..MaxFreqs}

\* ------------------------- numpy array algebra --------------------------

RECURSIVE Size(_)
Size(shape) == IF shape = <<>> THEN 1 ELSE Head(shape) * Size(Tail(shape))

\* shape with 1s prepended up to d dimensions
RECURSIVE PadLeft(_, _)
PadLeft(shape, d) == IF Len(shape) >= d THEN shape ELSE PadLeft(<<1>> \o shape, d)

Max2(a, b) == IF a >= b THEN a ELSE b

\* number of elements spanned by one step along each axis (row-major)
Strides(shape) == [i \in 1..Len(shape) |-> Size(SubSeq(shape, i + 1, Len(shape)))]

\* 0-based multi-index of the 0-based flat index k, st being Strides(shape)
Unravel(k, shape, st) == [i \in 1..Len(shape) |-> (k \div st[i]) % shape[i]]

RECURSIVE RavelN(_, _, _)
RavelN(idx, shape, n) ==
  IF n = 0 THEN 0 ELSE RavelN(idx, shape, n - 1) * shape[n] + idx[n]

Ravel(idx, shape) == RavelN(idx, shape, Len(shape))

\* np.tile(A, reps): both are promoted to d = max(ndim, len(reps)) dimensions
\* by prepending 1s; axis i of the result has length A.shape[i] * reps[i]
TileShape(shape, reps) ==
  LET d == Max2(Len(shape), Len(reps))
      s == PadLeft(shape, d)
      r == PadLeft(reps, d)
  IN  [i \in 1..d |-> s[i] * r[i]]

NpTile(a, reps) ==
  LET d  == Max2(Len(a.shape), Len(reps))
      s  == PadLeft(a.shape, d)
      os == TileShape(a.shape, reps)
      st == Strides(os)
  IN  [shape |-> os,
       data  |-> [k \in 1..Size(os) |->
                   LET idx == Unravel(k - 1, os, st)
                       src == [i \in 1..d |-> idx[i] % s[i]]
                   IN  a.data[Ravel(src, s) + 1]]]

\* numpy broadcasting of two shapes: aligned on the right, each pair of axis
\* lengths must be equal or contain a 1
BroadcastOk(sa, sb) ==
  LET d == Max2(Len(sa), Len(sb))
      a == PadLeft(sa, d)
      b == PadLeft(sb, d)
  IN  \A i \in 1..d : a[i] = b[i] \/ a[i] = 1 \/ b[i] = 1

BroadcastShape(sa, sb) ==
  LET d == Max2(Len(sa), Len(sb))
      a == PadLeft(sa, d)
      b == PadLeft(sb, d)
  IN  [i \in 1..d |-> IF a[i] = 1 THEN b[i] ELSE a[i]]

\* a * b elementwise under broadcasting (defined when BroadcastOk)
NpMultiply(a, b) ==
  LET d  == Max2(Len(a.shape), Len(b.shape))
      sa == PadLeft(a.shape, d)
      sb == PadLeft(b.shape, d)
      os == BroadcastShape(a.shape, b.shape)
      st == Strides(os)
  IN  [shape |-> os,
       data  |-> [k \in 1..Size(os) |->
                   LET idx == Unravel(k - 1, os, st)
                       ia  == [i \in 1..d |-> IF sa[i] = 1 THEN 0 ELSE idx[i]]
                       ib  == [i \in 1..d |-> IF sb[i] = 1 THEN 0 ELSE idx[i]]
                   IN  a.data[Ravel(ia, sa) + 1] * b.data[Ravel(ib, sb) + 1]]]

\* ------------------------- external libraries ---------------------------

\* hp.nside2npix
Nside2npix(nside) == 12 * nside * nside

\* value synthesised for component c (1..3), pixel p (1..npix) in row-major order
Sky(c, p) == 100 * c + p

\* hp.read_alm(filename, hdu=(1, 2, 3) if has_polarization else 1)
ReadAlm(filename, has_polarization) ==
  [ok    |-> filename = "alms.fits",
   ncomp |-> IF has_polarization THEN 3 ELSE 1,
   ndim  |-> IF has_polarization THEN 2 ELSE 1]

\* hp.alm2map(alm, nside): a single alm gives a single 1-D map
HpAlm2map(alm, nside) ==
  LET npix == Nside2npix(nside)
      shp  == IF alm.ndim = 1 THEN <<npix>> ELSE <<alm.ncomp, npix>>
  IN  [shape |-> shp,
       data  |-> [k \in 1..Size(shp) |-> Sky(((k - 1) \div npix) + 1, ((k - 1) % npix) + 1)]]

\* pysm.convert_units(unit1, unit2, nu) for one frequency: 1 between equal
\* units, otherwise a frequency-dependent factor
ConvertUnits(unit1, unit2, f) ==
  IF unit1 = unit2 THEN 1
  ELSE IF unit1 = "K_CMB" THEN (IF f = 100 THEN 2 ELSE 3)
  ELSE (IF f = 100 THEN 5 ELSE 7)

UnitKnown(u) == u \in Units

\* variant of Factors: the factor of the first frequency used for every slice
FactorsFirst(unit1, unit2, nuseq) ==
  [i \in 1..Len(nuseq) |-> ConvertUnits(unit1, unit2, nuseq[1])]

\* the per-frequency conversion factors, one per requested frequency
\* (pysm.convert_units applied to the whole nu array)
Factors(unit1, unit2, nuseq) ==
  [i \in 1..Len(nuseq) |-> ConvertUnits(unit1, unit2, nuseq[i])]

\* ----------------------------- constructor ------------------------------

\* shape[-2:]
LastTwo(shape) == SubSeq(shape, Max2(1, Len(shape) - 1), Len(shape))

\* variant of EnmapEmptyShape: the whole of self.shape kept
EnmapEmptyShapeFull(has_polarization, shape) ==
  LET n_comp == IF has_polarization THEN 3 ELSE 1
  IN  <<n_comp>> \o shape

\* the shape handed to enmap.empty: (n_comp,) + self.shape[-2:]
EnmapEmptyShape(has_polarization, shape) ==
  LET n_comp == IF has_polarization THEN 3 ELSE 1
  IN  <<n_comp>> \o LastTwo(shape)

\* curvedsky.alm2map(alm, self.output_map, spin=[0, 2]): fills the buffer of
\* the given shape in place
CurvedskyAlm2map(shp) ==
  LET npix == Size(Tail(shp))
  IN  [shape |-> shp,
       data  |-> [k \in 1..Size(shp) |-> Sky(((k - 1) \div npix) + 1, ((k - 1) % npix) + 1)]]

\* the attributes assigned first in __init__; output_map is the stored map's
\* shape, None while no map is stored
Fields(filename, target_nside, target_shape, target_wcs, input_units, has_polarization, pixel_indices) ==
  [nside |-> target_nside, shape |-> target_shape, wcs |-> target_wcs,
   filename |-> filename, input_units |-> input_units,
   pixel_indices |-> pixel_indices, has_polarization |-> has_polarization]

Failed(f, e) ==
  [self |-> [status |-> "failed", err |-> e, output_map |-> None] @@ f,
   data |-> <<>>]

Built(f, m) ==
  [self |-> [status |-> "ok", err |-> "none", output_map |-> m.shape] @@ f,
   data |-> m.data]

\* map[..., pixel_indices]: the listed pixels (0-based, RING order) of each row
TakePixels(m, pixel_indices) ==
  LET npix == m.shape[Len(m.shape)]
      rows == Size(m.shape) \div npix
      n    == Len(pixel_indices)
  IN  [shape |-> [i \in 1..Len(m.shape) |-> IF i = Len(m.shape) THEN n ELSE m.shape[i]],
       data  |-> [k \in 1..(rows * n) |->
                   m.data[((k - 1) \div n) * npix + pixel_indices[((k - 1) % n) + 1] + 1]]]

\* variant of PrecomputedAlmsInit: the HEALPix map restricted to pixel_indices
PrecomputedAlmsInitPartial(px, filename, target_nside, target_shape, target_wcs, input_units, has_polarization, pixel_indices) ==
  LET f   == Fields(filename, target_nside, target_shape, target_wcs,
                    input_units, has_polarization, pixel_indices)
      alm == ReadAlm(filename, has_polarization)
  IN  IF ~alm.ok THEN Failed(f, "IOError")
      ELSE IF target_nside = None
        THEN IF ~(target_shape # None /\ target_wcs # None)
               THEN Failed(f, "AssertionError")
             ELSE IF ~px THEN Failed(f, "NameError")
             ELSE Built(f, CurvedskyAlm2map(EnmapEmptyShape(has_polarization, target_shape)))
      ELSE IF pixel_indices = None THEN Built(f, HpAlm2map(alm, target_nside[1]))
      ELSE Built(f, TakePixels(HpAlm2map(alm, target_nside[1]), pixel_indices))

\* PrecomputedAlms.__init__; px tells whether the import of pixell succeeded
PrecomputedAlmsInit(px, filename, target_nside, target_shape, target_wcs, input_units, has_polarization, pixel_indices) ==
  LET f   == Fields(filename, target_nside, target_shape, target_wcs,
                    input_units, has_polarization, pixel_indices)
      alm == ReadAlm(filename, has_polarization)
  IN  IF ~alm.ok THEN Failed(f, "IOError")
      ELSE IF target_nside = None
        THEN IF ~(target_shape # None /\ target_wcs # None)
               THEN Failed(f, "AssertionError")
             ELSE IF ~px THEN Failed(f, "NameError")
             ELSE Built(f, CurvedskyAlm2map(EnmapEmptyShape(has_polarization, target_shape)))
      ELSE Built(f, HpAlm2map(alm, target_nside[1]))

\* -------------------------------- signal --------------------------------

\* nnu = len(nu), or nu = np.array([nu]) for a scalar: both give the sequence
NuSeq(nu) == nu.val

NoArray == [buf |-> "none", shape |-> <<>>]

\* lines 82-87: the array `out` before the return statement, or the error
\* raised on the way
SignalOut(px, o, h, nu, output_units) ==
  LET nuseq == NuSeq(nu)
      nnu   == Len(nuseq)
      om    == [shape |-> o.output_map, data |-> h["output_map"]]
      tiled == NpTile(om, <<nnu, 1, 1>>)
      fac   == [shape |-> <<nnu, 1, 1>>,
                data  |-> Factors(o.input_units, output_units, nuseq)]
  IN  IF o.wcs # None /\ ~px THEN [err |-> "NameError", out |-> om]
      ELSE IF ~UnitKnown(output_units) THEN [err |-> "UnitError", out |-> om]
      ELSE IF ~BroadcastOk(tiled.shape, fac.shape) THEN [err |-> "ValueError", out |-> om]
      ELSE [err |-> "none", out |-> NpMultiply(tiled, fac)]

\* lines 91-94: out[0] when len(out) == 1, else out
Returned(shape) == IF shape[1] = 1 THEN Tail(shape) ELSE shape

\* variant of signal: for a single frequency the product is written into the
\* cached map's own buffer (out *= factor on an untiled map) and returned
signalInPlace(px, o, h, nu, output_units) ==
  LET r == SignalOut(px, o, h, nu, output_units)
  IN  IF r.err # "none"
        THEN [ret  |-> [status |-> "error", err |-> r.err, arr |-> NoArray,
                        nu |-> nu, output_units |-> output_units],
              heap |-> [h EXCEPT !["out"] = <<>>]]
        ELSE IF Len(NuSeq(nu)) = 1
        THEN [ret  |-> [status |-> "ok", err |-> "none",
                        arr |-> [buf |-> "output_map", shape |-> Returned(r.out.shape)],
                        nu |-> nu, output_units |-> output_units],
              heap |-> [h EXCEPT !["output_map"] = r.out.data, !["out"] = <<>>]]
        ELSE [ret  |-> [status |-> "ok", err |-> "none",
                        arr |-> [buf |-> "out", shape |-> Returned(r.out.shape)],
                        nu |-> nu, output_units |-> output_units],
              heap |-> [h EXCEPT !["out"] = r.out.data]]

\* PrecomputedAlms.signal: the outcome handed to the caller and the heap after
\* the call.  np.tile, enmap.enmap and the product each allocate; only the
\* product's buffer ("out") outlives the call, out[0] being a view on it.
signal(px, o, h, nu, output_units) ==
  LET r == SignalOut(px, o, h, nu, output_units)
  IN  IF r.err # "none"
        THEN [ret  |-> [status |-> "error", err |-> r.err, arr |-> NoArray,
                        nu |-> nu, output_units |-> output_units],
              heap |-> [h EXCEPT !["out"] = <<>>]]
        ELSE [ret  |-> [status |-> "ok", err |-> "none",
                        arr |-> [buf |-> "out", shape |-> Returned(r.out.shape)],
                        nu |-> nu, output_units |-> output_units],
              heap |-> [h EXCEPT !["out"] = r.out.data]]

\* ------------------------------ the machine -----------------------------

NoObject ==
  [status |-> "none", err |-> "none", output_map |-> None]
  @@ Fields("alms.fits", None, None, None, "uK_RJ", TRUE, None)

NoCall ==
  [status |-> "none", err |-> "none", arr |-> NoArray,
   nu |-> [kind |-> "seq", val |-> <<148>>], output_units |-> "uK_RJ"]

Init ==
  /\ pixell \in BOOLEAN
  /\ obj = NoObject
  /\ heap = [b \in {"output_map", "out"} |-> <<>>]
  /\ ret = NoCall
  /\ touched = FALSE

Construct ==
  /\ obj.status = "none"
  /\ \E filename \in Files, target_nside \in {None} \cup {<<n>> : n \in Nsides},
        target_shape \in Shapes, target_wcs \in Wcss, input_units \in Units,
        has_polarization \in BOOLEAN, pixel_indices \in PixelIndexSets :
       LET c == PrecomputedAlmsInit(pixell, filename, target_nside, target_shape,
                                    target_wcs, input_units, has_polarization,
                                    pixel_indices)
       IN  /\ obj' = c.self
           /\ heap' = [heap EXCEPT !["output_map"] = c.data]
  /\ UNCHANGED <<pixell, ret, touched>>

Signal ==
  /\ obj.status = "ok"
  /\ \E nu \in NuInputs, output_units \in OutUnits :
       LET s == signal(pixell, obj, heap, nu, output_units)
       IN  /\ ret' = s.ret
           /\ heap' = s.heap
  /\ touched' = FALSE
  /\ UNCHANGED <<pixell, obj>>

\* the caller writes into the array signal() returned
Modify ==
  /\ ret.status = "ok"
  /\ heap' = [heap EXCEPT ![ret.arr.buf][1] = 0]
  /\ touched' = TRUE
  /\ UNCHANGED <<pixell, obj, ret>>

Next == Construct \/ Signal \/ Modify

Spec == Init /\ [][Next]_vars

\* ------------------------------ properties ------------------------------

\* number of map components requested at construction
NComp(o) == IF o.has_polarization THEN 3 ELSE 1

\* the pixel axes of the grid the map was built on
SpatialDims(o) ==
  IF o.nside # None THEN <<12 * o.nside[1] * o.nside[1]>>
  ELSE <<o.shape[Len(o.shape) - 1], o.shape[Len(o.shape)]>>

\* number of frequencies of the last signal() call
NFreq == Len(ret.nu.val)

Readable(o) == o.filename = "alms.fits"

\* C1: whenever signal() returns, the data of the i-th requested frequency is
\* the cached map times convert_units(input_units, output_units, nu[i]),
\* element by element, and nothing else is returned.
C1_SliceIsMapTimesOwnFactor ==
  (ret.status = "ok" /\ ~touched) =>
    LET data == heap[ret.arr.buf]
        m    == heap["output_map"]
        sz   == Len(m)
    IN  /\ Len(data) = NFreq * sz
        /\ \A i \in 1..NFreq : \A k \in 1..sz :
             data[(i - 1) * sz + k]
               = m[k] * ConvertUnits(obj.input_units, ret.output_units, ret.nu.val[i])

\* C1 witness: two different frequencies with different factors were returned
C1_Witness ==
  /\ ret.status = "ok" /\ ~touched /\ NFreq = 2
  /\ ret.nu.val[1] # ret.nu.val[2]
  /\ obj.input_units = "K_CMB" /\ ret.output_units = "uK_RJ"
  /\ obj.has_polarization

\* C2: signal() with N >= 2 frequencies returns, without error, an array of
\* shape (N, nComponents) + spatialDims on every constructed object
\* (stated for recognised units and with pixell importable).
C2_ManyFreqShape ==
  (ret.status # "none" /\ NFreq >= 2 /\ pixell /\ UnitKnown(ret.output_units)) =>
    /\ ret.status = "ok"
    /\ ret.arr.shape = <<NFreq, NComp(obj)>> \o SpatialDims(obj)

\* C3: signal() with one frequency returns shape (nComponents,) + spatialDims
\* on every constructed object: only the frequency axis is dropped.
C3_OneFreqShape ==
  (ret.status = "ok" /\ NFreq = 1) =>
    ret.arr.shape = <<NComp(obj)>> \o SpatialDims(obj)

\* C4: constructing with only target_nside stores an output_map of shape
\* (nComponents, 12 * nside^2), also when has_polarization is False.
C4_HealpixMapShape ==
  (obj.status = "ok" /\ obj.nside # None /\ obj.shape = None /\ obj.wcs = None) =>
    obj.output_map = <<NComp(obj), 12 * obj.nside[1] * obj.nside[1]>>

\* C5: constructing on a rectangular descriptor (target_nside None) stores an
\* output_map of shape (nComponents,) + target_shape[-2:].
C5_RectMapShape ==
  (obj.status = "ok" /\ obj.nside = None) =>
    /\ obj.output_map = <<NComp(obj)>> \o SpatialDims(obj)
    /\ Len(heap["output_map"]) = NComp(obj) * Size(SpatialDims(obj))

\* C5 witness: a rectangular map built from a shape with a leading dimension
C5_Witness ==
  /\ obj.status = "ok" /\ obj.nside = None
  /\ Len(obj.shape) = 3 /\ ~obj.has_polarization

\* C6: once constructed, output_map keeps its shape and contents over every
\* step (signal() calls that succeed or fail, writes by the caller into a
\* returned array), and a returned array never lives in output_map's buffer.
C6_OutputMapImmutable ==
  [][/\ obj.status = "ok" =>
          /\ obj' = obj
          /\ heap'["output_map"] = heap["output_map"]
     /\ ret'.status = "ok" => ret'.arr.buf # "output_map"]_vars

\* C6 witness: the caller has written into an array signal() returned
C6_Witness ==
  /\ obj.status = "ok" /\ ret.status = "ok" /\ touched
  /\ NFreq = 1 /\ obj.input_units = "K_CMB"

\* C7: with target_nside None and an incomplete rectangular descriptor, and a
\* readable file, construction fails with the constructor's ValueError and
\* stores no output_map.
C7_MissingGridIsValueError ==
  (/\ obj.status # "none" /\ Readable(obj)
   /\ obj.nside = None /\ (obj.shape = None \/ obj.wcs = None)) =>
    /\ obj.status = "failed"
    /\ obj.err = "ValueError"
    /\ obj.output_map = None

\* C8: no object is constructed from both a HEALPix and a complete
\* rectangular descriptor.
C8_BothGridsRejected ==
  obj.status = "ok" =>
    ~(obj.nside # None /\ obj.shape # None /\ obj.wcs # None)

\* C9: with pixell absent, construction on the HEALPix branch and every later
\* signal() call never fail on the missing names curvedsky / enmap.
C9_HealpixNeedsNoPixell ==
  (~pixell /\ obj.status # "none" /\ obj.nside # None) =>
    /\ obj.err # "NameError"
    /\ ret.err # "NameError"

====
